---- MODULE Spec2Model ----
(***************************************************************************)
(* The DXF geometry pipeline of CivilConstructionApp:                      *)
(*   process_dxf_geometry  (src/ocr-service/modules/dxf_utils.py)          *)
(*   process_dxf           (src/CAD-parser/dxf_app.py)                     *)
(*                                                                         *)
(* Units.  Raw coordinates are integers counting 1/SubMilli of 0.001       *)
(* drawing unit; round(x, 3) maps them to integers counting 0.001 drawing  *)
(* unit ("milli").  Areas are in milli^2.  A scale (metres per drawing     *)
(* unit) is an exact fraction <<num, den>>; metres are counted in mm and   *)
(* square metres in mm^2, so 1.5 m is 1500 and 0.001 m^2 is 1000.          *)
(* All segments of the modelled drawings are axis-parallel, which keeps    *)
(* every intersection point on integer coordinates.                        *)
(***************************************************************************)
EXTENDS Integers, Sequences, FiniteSets, TLC

\* ---------------------------------------------------------------- bounds
\* Largest number of entities in a modelled drawing.
MaxRecords == 2
\* Raw coordinate steps per 0.001 drawing unit.
SubMilli == 4
\* Largest $INSUNITS code a modelled drawing header carries.
MaxUnitsCode == 7
\* Largest millisecond reading of the service clock.
MaxClock == 1

\* ------------------------------------------------------ program constants
\* dxf_utils.py:7  EXTENSION_TOLERANCE = 1.5 (metres), here in mm.
EXTENSION_TOLERANCE == 1500
\* dxf_utils.py:70  the literal 0.001 (m^2), here in mm^2.
MIN_AREA == 1000

\* dxf_utils.py:6  UNIT_TO_METERS, each value as an exact fraction.
UNIT_TO_METERS ==
  [c \in {0, 1, 2, 4, 5, 6} |->
     CASE c \in {0, 1, 2} -> <<127, 5000>>
       [] c = 4 -> <<1, 1000>>
       [] c = 5 -> <<1, 100>>
       [] c = 6 -> <<1, 1>>]

\* A lookup whose fallback for an unlisted code is zero.
ScaleOfListed(units_code) ==
  IF units_code \in DOMAIN UNIT_TO_METERS
  THEN UNIT_TO_METERS[units_code] ELSE <<0, 1>>

\* dxf_utils.py:27-29  scale = UNIT_TO_METERS.get(units_code, 0.0254)
ScaleOf(units_code) ==
  LET s == IF units_code \in DOMAIN UNIT_TO_METERS
           THEN UNIT_TO_METERS[units_code] ELSE <<127, 5000>>
  IN IF units_code = 2 THEN <<127, 5000>> ELSE s

\* ------------------------------------------------- exact wide arithmetic
\* Naturals beyond 32 bits, as little-endian sequences of base-10000 digits
\* without leading zeros; used to compare products exactly.
RECURSIVE ToWide(_)
ToWide(n) == IF n = 0 THEN <<>> ELSE <<n % 10000>> \o ToWide(n \div 10000)

RECURSIVE MulCarry(_, _, _)
MulCarry(w, k, carry) ==
  IF w = <<>> THEN ToWide(carry)
  ELSE LET t == Head(w) * k + carry
       IN <<t % 10000>> \o MulCarry(Tail(w), k, t \div 10000)

WMul(w, k) == IF k = 0 THEN <<>> ELSE MulCarry(w, k, 0)

WLess(a, b) ==
  IF Len(a) # Len(b) THEN Len(a) < Len(b)
  ELSE \E i \in 1..Len(a) :
         /\ a[i] < b[i]
         /\ \A j \in (i + 1)..Len(a) : a[j] = b[j]

\* ------------------------------------------------------------- utilities
Range(s) == {s[i] : i \in 1..Len(s)}

Min(S) == CHOOSE x \in S : \A y \in S : x <= y

Max(S) == CHOOSE x \in S : \A y \in S : y <= x

RECURSIVE SortedSeq(_)
SortedSeq(S) == IF S = {} THEN <<>> ELSE <<Min(S)>> \o SortedSeq(S \ {Min(S)})

RECURSIVE Concat(_)
Concat(ss) == IF ss = <<>> THEN <<>> ELSE Head(ss) \o Concat(Tail(ss))

\* ---------------------------------------------------------------- inputs
Impls == {"dxf_utils", "dxf_app"}
Layers == {"A", "B"}

Raw(x, y) == <<SubMilli * x, SubMilli * y>>
Jit(x, y, dx, dy) == <<SubMilli * x + dx, SubMilli * y + dy>>

Line(layer, p, q) ==
  [kind |-> "LINE", layer |-> layer, pts |-> <<p, q>>, closed |-> FALSE]
Poly(layer, pts, closed) ==
  [kind |-> "LWPOLYLINE", layer |-> layer, pts |-> pts, closed |-> closed]

\* The entities the modelled drawings are assembled from.
Pool ==
  << Line("A", Raw(0, 0), Raw(25, 0)),
     Line("A", Jit(25, 0, 1, -1), Jit(0, 0, -1, 1)),
     Line("B", Jit(50, 40, 1, 0), Jit(50, 40, 0, -1)),
     Poly("A", <<Raw(0, 0), Raw(25, 0), Raw(25, 40), Raw(0, 40)>>, TRUE),
     Poly("A", <<Raw(0, 0), Raw(50, 0), Raw(50, 40), Raw(0, 40)>>, TRUE),
     Poly("B", <<Raw(0, 0), Raw(2000, 0), Raw(2000, 1000), Raw(0, 1000)>>, TRUE),
     Line("A", Raw(25, 0), Raw(25, 1000)),
     Poly("A", <<>>, TRUE),
     Poly("A", <<Raw(50, 40)>>, TRUE),
     Poly("B", <<Raw(50, 40)>>, FALSE),
     Poly("A", <<Raw(50, 40), Raw(2000, 40)>>, TRUE),
     Poly("A", <<Raw(0, 0), Raw(25, 0), Raw(25, 40), Raw(0, 40), Raw(0, 1)>>, FALSE),
     Poly("A", <<Raw(25, 0), Raw(50, 0), Raw(50, 40), Raw(0, 40), Raw(0, 0),
                 Raw(24, 0)>>, FALSE),
     Poly("A", <<Raw(1900, 100), Raw(1950, 100), Raw(1950, 140), Raw(1900, 140)>>, TRUE) >>

Drawings ==
  {[records |-> [i \in 1..Len(ix) |-> Pool[ix[i]]], units |-> u] :
     ix \in {SortedSeq(S) : S \in {T \in SUBSET (1..Len(Pool)) : Cardinality(T) <= MaxRecords}},
     u \in 0..MaxUnitsCode}

ActiveLayers ==
  {[is_none |-> TRUE, layers |-> {}]} \cup
  {[is_none |-> FALSE, layers |-> L] : L \in {{}, {"A"}}}

Tolerances == {0, EXTENSION_TOLERANCE}

\* ------------------------------------------------------------- ingestion
\* dxf_utils.py:33-35 / dxf_app.py:38-39  the layer filter.
Selected(impl, active, e) ==
  IF impl = "dxf_utils"
  THEN ~(~active.is_none /\ Cardinality(active.layers) > 0
         /\ e.layer \notin active.layers)
  ELSE ~(~active.is_none /\ e.layer \notin active.layers)

\* dxf_app.py:47-48  points[-1] of an empty list raises IndexError.
Raises(impl, e) ==
  /\ impl = "dxf_app"
  /\ e.kind = "LWPOLYLINE"
  /\ e.closed
  /\ Len(e.pts) = 0

\* An unrolling that never adds the closing pair.
UnrollOpen(pts, closed) ==
  [i \in 1..(Len(pts) - 1) |-> <<pts[i], pts[i + 1]>>]

\* dxf_utils.py:42-45 / dxf_app.py:45-48  consecutive pairs, then the closing pair.
Unroll(pts, closed) ==
  [i \in 1..(Len(pts) - 1) |-> <<pts[i], pts[i + 1]>>]
    \o (IF closed THEN << <<pts[Len(pts)], pts[1]>> >> ELSE <<>>)

\* dxf_utils.py:37-45 / dxf_app.py:41-48  the lines one entity contributes.
EntityLines(impl, e) ==
  IF e.kind = "LINE" THEN << <<e.pts[1], e.pts[2]>> >>
  ELSE IF impl = "dxf_utils"
       THEN IF Len(e.pts) > 1 THEN Unroll(e.pts, e.closed) ELSE <<>>
       ELSE Unroll(e.pts, e.closed)

\* dxf_utils.py:31-45  the loop over msp.query('LINE LWPOLYLINE').
ReadLines(impl, active, records) ==
  Concat([i \in 1..Len(records) |->
            IF Selected(impl, active, records[i])
            THEN EntityLines(impl, records[i]) ELSE <<>>])

ReadRaises(impl, active, records) ==
  \E i \in 1..Len(records) :
    Selected(impl, active, records[i]) /\ Raises(impl, records[i])

\* ------------------------------------------------------ canonicalization
\* round(x, 3) on a raw coordinate (the modelled inputs hold no exact tie).
Round3(r) == (2 * r + SubMilli) \div (2 * SubMilli)

RoundPt(p) == <<Round3(p[1]), Round3(p[2])>>

\* dxf_utils.py:49-50
RoundLine(l) == <<RoundPt(l[1]), RoundPt(l[2])>>

KeepAny(l) == TRUE

\* dxf_utils.py:51  "if p1 != p2"
KeepRounded(l) == l[1] # l[2]

\* dxf_utils.py:47-51
Canonicalize(lines) ==
  SelectSeq([i \in 1..Len(lines) |-> RoundLine(lines[i])], KeepRounded)

\* ----------------------------------------------------- connectivity graph
RECURSIVE Dedup(_)
Dedup(s) ==
  IF s = <<>> THEN <<>>
  ELSE LET r == Dedup(SubSeq(s, 1, Len(s) - 1))
           x == s[Len(s)]
       IN IF x \in Range(r) THEN r ELSE Append(r, x)

\* Node order of nx.Graph: first appearance as an endpoint.
Endpoints(segs) ==
  Concat([i \in 1..Len(segs) |-> <<segs[i][1], segs[i][2]>>])

\* A graph that keeps one adjacency entry per add_edge call (parallel edges).
BuildMultiGraph(segs) ==
  LET nodes == Dedup(Endpoints(segs))
  IN [nodes |-> nodes,
      adj |-> [n \in Range(nodes) |->
                 {<<segs[i][2], i>> : i \in {k \in 1..Len(segs) : segs[k][1] = n}}
                 \cup {<<segs[i][1], i>> : i \in {k \in 1..Len(segs) : segs[k][2] = n}}]]

\* dxf_utils.py:53-54  G = nx.Graph(); G.add_edge(u, v) per rounded line:
\* adj[n] maps each neighbour of n to one edge, however often it was added.
BuildGraph(segs) ==
  LET nodes == Dedup(Endpoints(segs))
  IN [nodes |-> nodes,
      adj |-> [n \in Range(nodes) |->
                 {segs[i][2] : i \in {k \in 1..Len(segs) : segs[k][1] = n}}
                 \cup {segs[i][1] : i \in {k \in 1..Len(segs) : segs[k][2] = n}}]]

\* G.degree(): the number of adjacency entries of n.
Degree(G, n) == Cardinality(G.adj[n])

IsDeadEndAny(d) == d >= 1

\* dxf_utils.py:55  "if d == 1"
IsDeadEnd(d) == d = 1

\* dxf_utils.py:55  dead_ends, in node order.
DeadEnds(G) ==
  LET keep(n) == IsDeadEnd(Degree(G, n)) IN SelectSeq(G.nodes, keep)

\* ------------------------------------------------------------ gap closing
Clamp(v, a, b) ==
  LET lo == IF a < b THEN a ELSE b
      hi == IF a < b THEN b ELSE a
  IN IF v < lo THEN lo ELSE IF v > hi THEN hi ELSE v

\* The point of an axis-parallel segment nearest to p.
NearestOnSeg(p, s) ==
  <<Clamp(p[1], s[1][1], s[2][1]), Clamp(p[2], s[1][2], s[2][2])>>

Dist2(p, q) == (p[1] - q[1]) * (p[1] - q[1]) + (p[2] - q[2]) * (p[2] - q[2])

\* dxf_utils.py:59-61  nearest_points(p, MultiLineString(segs))[1]: the nearest
\* point of the union of segs; among equidistant points the first segment's.
NearestPoint(p, segs) ==
  LET d(i) == Dist2(p, NearestOnSeg(p, segs[i]))
      k == Min({i \in 1..Len(segs) : \A j \in 1..Len(segs) : d(i) <= d(j)})
  IN NearestOnSeg(p, segs[k])

\* dxf_utils.py:62  p.distance(nearest) < tol / scale, on squared lengths:
\* d * num / den < tol   <=>   d2 * num^2 < tol^2 * den^2.
WithinTolerance(d2, tol, scale) ==
  WLess(WMul(WMul(ToWide(d2), scale[1]), scale[1]),
        WMul(WMul(WMul(ToWide(tol), tol), scale[2]), scale[2]))

\* dxf_utils.py:60-63  one pass over dead_ends against the rounded lines.
BridgePass(segs, ends, tol, scale) ==
  LET bridge(i) == <<ends[i], NearestPoint(ends[i], segs)>>
      close(b) == WithinTolerance(Dist2(b[1], b[2]), tol, scale)
  IN SelectSeq([i \in 1..Len(ends) |-> bridge(i)], close)

\* A gap closer that runs its pass a second time over the extended lines.
CloseGapsIterated(segs, ends, tol, scale) ==
  IF ends # <<>> /\ segs # <<>>
  THEN LET first == BridgePass(segs, ends, tol, scale)
       IN first \o BridgePass(segs \o first, ends, tol, scale)
  ELSE <<>>

\* dxf_utils.py:57-63
CloseGaps(segs, ends, tol, scale) ==
  IF ends # <<>> /\ segs # <<>>
  THEN BridgePass(segs, ends, tol, scale)
  ELSE <<>>

\* ----------------------------------------------------------------- noding
PtLess(p, q) == p[1] < q[1] \/ (p[1] = q[1] /\ p[2] < q[2])

Between(v, a, b) == (a <= v /\ v <= b) \/ (b <= v /\ v <= a)

\* pt lies on the axis-parallel segment s.
OnSegment(pt, s) ==
  Between(pt[1], s[1][1], s[2][1]) /\ Between(pt[2], s[1][2], s[2][2])

\* Where the axis-parallel segments s and t cross or touch, when not parallel.
Crossing(s, t) ==
  LET pt == IF s[1][2] = s[2][2] THEN <<t[1][1], s[1][2]>> ELSE <<s[1][1], t[1][2]>>
  IN IF OnSegment(pt, s) /\ OnSegment(pt, t) THEN {pt} ELSE {}

\* The vertices noding puts on s: its ends, every end of another line lying on
\* it (T touches, collinear overlaps) and every crossing (X).
CutPoints(s, segs) ==
  {pt \in UNION {{t[1], t[2]} \cup Crossing(s, t) : t \in segs} : OnSegment(pt, s)}

\* s cut at its vertices, each piece ordered by PtLess.
SplitEdges(s, segs) ==
  LET P == CutPoints(s, segs)
  IN {<<a, b>> \in P \X P :
        PtLess(a, b) /\ ~\E c \in P : PtLess(a, c) /\ PtLess(c, b)}

\* The lines as drawn, each ordered by PtLess, without any splitting.
NodeUnsplit(all_lines) ==
  {IF PtLess(l[1], l[2]) THEN l ELSE <<l[2], l[1]>> :
     l \in {m \in Range(all_lines) : m[1] # m[2]}}

\* dxf_utils.py:65-67  unary_union(all_lines) and its .geoms: the noded,
\* dissolved edge set.  A line without extent contributes no edge.
Node(all_lines) ==
  LET segs == {l \in Range(all_lines) : l[1] # l[2]}
  IN UNION {SplitEdges(s, segs) : s \in segs}

\* -------------------------------------------------------- face extraction
RECURSIVE SumAreas(_)
SumAreas(C) ==
  IF C = {} THEN 0
  ELSE LET c == CHOOSE c \in C : TRUE
       IN (c[3] - c[1]) * (c[4] - c[2]) + SumAreas(C \ {c})

\* The vertices that share an edge of B with v.
Nbrs(B, v) ==
  {e[2] : e \in {f \in B : f[1] = v}} \cup {e[1] : e \in {f \in B : f[2] = v}}

\* The lexicographically smallest point of a non-empty set.
MinPt(P) == CHOOSE p \in P : \A q \in P : p = q \/ PtLess(p, q)

\* Walks the boundary edges B from cur, never back to prev, until the walk
\* returns to its first vertex; acc is the walk so far and ends with cur.
RECURSIVE TraceRing(_, _, _, _)
TraceRing(B, prev, cur, acc) ==
  IF cur = acc[1] \/ Len(acc) > Cardinality(B) THEN acc
  ELSE LET N == Nbrs(B, cur) \ {prev}
       IN IF N = {} THEN acc
          ELSE LET n == MinPt(N) IN TraceRing(B, cur, n, Append(acc, n))

\* p.exterior of a polygonize result: the closed vertex sequence of the
\* shell, here started at the smallest vertex and walked clockwise (up
\* first).  B is the set of noded edges on the outer boundary of the face.
ExteriorRing(B) ==
  LET start == MinPt({e[1] : e \in B} \cup {e[2] : e \in B})
      up == {n \in Nbrs(B, start) : n[1] = start[1]}
      first == IF up = {} THEN MinPt(Nbrs(B, start)) ELSE MinPt(up)
  IN TraceRing(B, start, first, <<start, first>>)

\* dxf_utils.py:69  polygonize(final_lines): the bounded faces of the noded
\* arrangement.  The plane is cut along every vertex coordinate into cells
\* <<i, j>> (column i spans xs[i]..xs[i+1]; columns 0 and Len(xs) are
\* unbounded); two adjacent cells are in one face unless an edge covers the
\* wall between them; the face of cell <<0, 0>> is the unbounded one.
\* With merged = TRUE the cells enclosed by one outer boundary are taken
\* as a single face whatever edges run between them.
FacesOf(edges, merged) ==
  LET xs == SortedSeq({e[1][1] : e \in edges} \cup {e[2][1] : e \in edges})
      ys == SortedSeq({e[1][2] : e \in edges} \cup {e[2][2] : e \in edges})
      nx == Len(xs)
      ny == Len(ys)
      Cells == (0..nx) \X (0..ny)
      \* the wall at x = xs[i] on the left of cell <<i, j>>
      VWall(i, j) ==
        /\ 1 <= j /\ j < ny
        /\ \E e \in edges : /\ e[1][1] = xs[i] /\ e[2][1] = xs[i]
                            /\ e[1][2] <= ys[j] /\ ys[j + 1] <= e[2][2]
      \* the wall at y = ys[j] below cell <<i, j>>
      HWall(i, j) ==
        /\ 1 <= i /\ i < nx
        /\ \E e \in edges : /\ e[1][2] = ys[j] /\ e[2][2] = ys[j]
                            /\ e[1][1] <= xs[i] /\ xs[i + 1] <= e[2][1]
      VWalls == {c \in Cells : VWall(c[1], c[2])}
      HWalls == {c \in Cells : HWall(c[1], c[2])}
      Adjacent(c) ==
        {<<c[1] + 1, c[2]>>, <<c[1] - 1, c[2]>>,
         <<c[1], c[2] + 1>>, <<c[1], c[2] - 1>>} \cap Cells
      Open(c) ==
        {d \in Adjacent(c) :
           \/ d[1] = c[1] + 1 /\ d \notin VWalls
           \/ d[1] = c[1] - 1 /\ c \notin VWalls
           \/ d[2] = c[2] + 1 /\ d \notin HWalls
           \/ d[2] = c[2] - 1 /\ c \notin HWalls}
      \* the cells reached from the frontier N of the cells S reached so far
      Flood[N \in SUBSET Cells, S \in SUBSET Cells] ==
        LET M == UNION {Open(c) : c \in N} \ S
        IN IF M = {} THEN S ELSE Flood[M, S \cup M]
      Outside == Flood[{<<0, 0>>}, {<<0, 0>>}]
      Grow[N \in SUBSET Cells, S \in SUBSET Cells] ==
        LET M == UNION {IF merged THEN Adjacent(c) \ Outside ELSE Open(c) :
                        c \in N} \ S
        IN IF M = {} THEN S ELSE Grow[M, S \cup M]
      First(R) == CHOOSE c \in R : \A d \in R : c = d \/ PtLess(c, d)
      Faces[R \in SUBSET Cells] ==
        IF R = {} THEN <<>>
        ELSE LET F == Grow[{First(R)}, {First(R)}] IN <<F>> \o Faces[R \ F]
      Rect(c) == <<xs[c[1]], ys[c[2]], xs[c[1] + 1], ys[c[2] + 1]>>
      \* the cells around face F that connect to the unbounded cell without
      \* crossing F: everything but F and its holes
      Around[N \in SUBSET Cells, S \in SUBSET Cells, F \in SUBSET Cells] ==
        LET M == (UNION {Adjacent(c) : c \in N} \ S) \ F
        IN IF M = {} THEN S ELSE Around[M, S \cup M, F]
      Idx(s, v) == CHOOSE k \in 1..Len(s) : s[k] = v
      \* the two cells beside the first stretch of edge e
      Sides(e) ==
        LET i == Idx(xs, e[1][1])
            j == Idx(ys, e[1][2])
        IN IF e[1][1] = e[2][1] THEN <<(<<i - 1, j>>), (<<i, j>>)>>
           ELSE <<(<<i, j - 1>>), (<<i, j>>)>>
      Shell(F) ==
        LET out == Around[{<<0, 0>>}, {<<0, 0>>}, F]
        IN {e \in edges :
              \/ Sides(e)[1] \in F /\ Sides(e)[2] \in out
              \/ Sides(e)[2] \in F /\ Sides(e)[1] \in out}
      faces == Faces[Cells \ Outside]
  IN [k \in 1..Len(faces) |->
        LET cells == {Rect(c) : c \in faces[k]}
        IN [cells |-> cells, area |-> SumAreas(cells),
            ring |-> ExteriorRing(Shell(faces[k]))]]

PolygonizeMerged(edges) == FacesOf(edges, TRUE)

\* A face extractor that gives up on an arrangement with a loose end.
PolygonizeClosedOnly(edges) ==
  IF \E e \in edges : \E v \in {e[1], e[2]} : Cardinality(Nbrs(edges, v)) = 1
  THEN <<>>
  ELSE FacesOf(edges, FALSE)

\* dxf_utils.py:69
Polygonize(edges) == FacesOf(edges, FALSE)

\* --------------------------------------------------------- filter and rank
AreaAtLeast(area, scale) ==
  ~WLess(WMul(WMul(ToWide(area), scale[1]), scale[1]),
         WMul(WMul(ToWide(MIN_AREA), scale[2]), scale[2]))

\* dxf_utils.py:70  p.area * (scale**2) > 0.001:
\* area * num^2 / den^2 > MIN_AREA   <=>   MIN_AREA * den^2 < area * num^2.
AreaAbove(area, scale) ==
  WLess(WMul(WMul(ToWide(MIN_AREA), scale[2]), scale[2]),
        WMul(WMul(ToWide(area), scale[1]), scale[1]))

\* dxf_utils.py:70
FilterValid(ps, scale) ==
  LET keep(p) == AreaAbove(p.area, scale) IN SelectSeq(ps, keep)

Unsorted(ps) == ps

\* A ranking that keeps one polygon per area value.
RECURSIVE RankDistinctAreas(_)
RankDistinctAreas(ps) ==
  IF ps = <<>> THEN <<>>
  ELSE LET r == RankDistinctAreas(SubSeq(ps, 1, Len(ps) - 1))
           p == ps[Len(ps)]
           k == Cardinality({i \in 1..Len(r) : r[i].area >= p.area})
       IN IF \E i \in 1..Len(r) : r[i].area = p.area THEN r
          ELSE SubSeq(r, 1, k) \o <<p>> \o SubSeq(r, k + 1, Len(r))

\* dxf_utils.py:71  list.sort(key=area, reverse=True): stable, so polygons of
\* equal area keep their order.
RECURSIVE SortByAreaDesc(_)
SortByAreaDesc(ps) ==
  IF ps = <<>> THEN <<>>
  ELSE LET r == SortByAreaDesc(SubSeq(ps, 1, Len(ps) - 1))
           p == ps[Len(ps)]
           k == Cardinality({i \in 1..Len(r) : r[i].area >= p.area})
       IN SubSeq(r, 1, k) \o <<p>> \o SubSeq(r, k + 1, Len(r))

\* ------------------------------------------------------------ the result
CoordsWithoutClosing(p) == SubSeq(p.ring, 1, Len(p.ring) - 1)

\* dxf_utils.py:75  list(p.exterior.coords)
ExteriorCoords(p) == p.ring

AreaTimesScale(area, sc) ==
  <<WMul(ToWide(area), sc[1]), WMul(ToWide(1), sc[2])>>

\* dxf_utils.py:79  p.area * (scale**2), in mm^2, as the exact fraction
\* <<area * num^2, den^2>> of wide naturals.
AreaM2(area, sc) ==
  <<WMul(WMul(ToWide(area), sc[1]), sc[1]), WMul(WMul(ToWide(1), sc[2]), sc[2])>>

\* An output list whose ids count from one.
OutputPolygonsFromOne(valid, sc) ==
  [i \in 1..Len(valid) |->
     [id |-> i,
      points |-> ExteriorCoords(valid[i]),
      area_raw |-> valid[i].area,
      area_m2 |-> AreaM2(valid[i].area, sc)]]

\* dxf_utils.py:73-80
OutputPolygons(valid, sc) ==
  [i \in 1..Len(valid) |->
     [id |-> i - 1,
      points |-> ExteriorCoords(valid[i]),
      area_raw |-> valid[i].area,
      area_m2 |-> AreaM2(valid[i].area, sc)]]

\* dxf_utils.py:83-94  the bounding box of all ring points, or the default
\* box 0..100 drawing units when there is no polygon.
BoundsOf(out) ==
  IF out = <<>>
  THEN [min_x |-> 0, min_y |-> 0, max_x |-> 100000, max_y |-> 100000]
  ELSE LET pts == UNION {Range(out[i].points) : i \in 1..Len(out)}
           all_x == {pt[1] : pt \in pts}
           all_y == {pt[2] : pt \in pts}
       IN [min_x |-> Min(all_x), min_y |-> Min(all_y),
           max_x |-> Max(all_x), max_y |-> Max(all_y)]

ReturnedOrFailed(im, valid, sc) ==
  LET err == IF valid = <<>> THEN "no closed polygon" ELSE "None"
  IN IF im = "dxf_utils"
     THEN [polygons |-> OutputPolygons(valid, sc), scale |-> sc,
           bounds |-> BoundsOf(OutputPolygons(valid, sc)), error |-> err]
     ELSE [polygons |-> valid, scale |-> sc, error |-> err]

\* dxf_utils.py:96  return output_polygons, scale, bounds, None
\* dxf_app.py:76    return valid_polys, scale, None
\* The tuple as a record named after its unpacking at main.py:166.
Returned(im, valid, sc) ==
  IF im = "dxf_utils"
  THEN [polygons |-> OutputPolygons(valid, sc), scale |-> sc,
        bounds |-> BoundsOf(OutputPolygons(valid, sc)), error |-> "None"]
  ELSE [polygons |-> valid, scale |-> sc, error |-> "None"]

\* A read failure that reports no error.
ReadFailedSilently(message) ==
  [polygons |-> "None", scale |-> <<0, 1>>, bounds |-> "None", error |-> "None"]

\* dxf_utils.py:23-24  return None, 0, None, str(e)
ReadFailed(message) ==
  [polygons |-> "None", scale |-> <<0, 1>>, bounds |-> "None", error |-> message]

\* dxf_utils.py:23-24 / dxf_app.py:28-29  what either copy returns when
\* ezdxf.readfile raises.
ReadError(im, message) ==
  IF im = "dxf_utils" THEN ReadFailed(message)
  ELSE [polygons |-> "None", scale |-> <<0, 1>>, error |-> message]

\* The layer names in sorted order.
LayerNames == <<"A", "B">>

\* dxf_utils.py:9-18 / dxf_app.py:14-23  get_dxf_layers: the sorted layers of
\* the LINE and LWPOLYLINE entities, or the empty list and the message.
GetDxfLayers(message, records) ==
  IF message # "" THEN [layers |-> <<>>, error |-> message]
  ELSE [layers |-> SelectSeq(LayerNames,
                     LAMBDA l : \E i \in 1..Len(records) : records[i].layer = l),
        error |-> "None"]

\* The messages of the modelled read failures.
ReadProblems == {"Not a DXF file", "No such file"}

\* dxf_app.py:253  the entry of a polygon nothing is selected on.
Unselected ==
  [site |-> FALSE, building |-> FALSE, is_footprint |-> TRUE, floors |-> 1]

\* dxf_app.py:129-150  DXFAnalyzerApp.__init__
NewApp ==
  [polys |-> <<>>, scale |-> <<1, 1>>, current_file |-> 0,
   active_layers |-> [is_none |-> TRUE, layers |-> {}], all_layers |-> <<>>,
   selections |-> [i \in {} |-> Unselected], current_mode |-> "building",
   is_footprint_var |-> TRUE, floor_count_var |-> 1,
   btn_layers |-> "disabled"]

\* ------------------------------------------------------------ the program
VARIABLES
  impl,          \* which copy of the pipeline runs
  doc,           \* the drawing: its entities and its $INSUNITS code
  problem,       \* why the file cannot be read, "" when it can
  active_layers, \* the active_layers argument
  tol,           \* the gap tolerance in force (mm)
  pc,            \* the position of the run
  scale,         \* <<num, den>>
  lines,         \* raw lines, in entity order
  rounded,       \* canonical segments
  G,             \* the connectivity graph
  dead_ends,     \* degree-1 nodes, in node order
  extensions,    \* bridging segments
  final_lines,   \* noded edges
  polys,         \* polygonize output
  valid_polys,   \* filtered and ranked polygons
  result,        \* what the run returned; <<>> until it returns
  upload_dir,    \* the files in UPLOAD_DIR, as <<path, content>> pairs
  requests,      \* the requests to /cad/process and their handlers' locals
  running,       \* the request whose handler occupies the event loop, or 0
  clock,         \* int(time.time() * 1000)
  app            \* the fields of the DXFAnalyzerApp window

vars ==
  <<impl, doc, problem, active_layers, tol, pc, scale, lines, rounded, G, dead_ends,
    extensions, final_lines, polys, valid_polys, result,
    upload_dir, requests, running, clock, app>>

server_vars == <<upload_dir, requests, running, clock>>

Init ==
  /\ impl \in Impls
  /\ \/ doc \in Drawings /\ problem = ""
     \/ doc = [records |-> <<>>, units |-> 0] /\ problem \in ReadProblems
  /\ active_layers \in ActiveLayers
  /\ tol \in Tolerances
  /\ pc = "start"
  /\ scale = <<0, 1>>
  /\ lines = <<>>
  /\ rounded = <<>>
  /\ G = BuildGraph(<<>>)
  /\ dead_ends = <<>>
  /\ extensions = <<>>
  /\ final_lines = {}
  /\ polys = <<>>
  /\ valid_polys = <<>>
  /\ result = <<>>
  /\ upload_dir = {}
  /\ requests = <<>>
  /\ running = 0
  /\ clock = 0
  /\ app = NewApp

\* dxf_utils.py:21-45 / dxf_app.py:26-48  ezdxf.readfile, the scale and the
\* loop over the entities.
Read ==
  /\ pc = "start"
  /\ UNCHANGED <<server_vars, app>>
  /\ IF problem # ""
     THEN /\ pc' = "failed"
          /\ result' = ReadError(impl, problem)
          /\ UNCHANGED <<scale, lines>>
     ELSE /\ scale' = ScaleOf(doc.units)
          /\ result' = result
          /\ IF ReadRaises(impl, active_layers, doc.records)
             THEN pc' = "raised" /\ lines' = lines
             ELSE pc' = "lines" /\ lines' = ReadLines(impl, active_layers, doc.records)
  /\ UNCHANGED <<impl, doc, problem, active_layers, tol, rounded, G, dead_ends,
                 extensions, final_lines, polys, valid_polys>>

\* dxf_utils.py:9-18 / dxf_app.py:14-23  a call of get_dxf_layers on the file.
ListLayers ==
  /\ pc = "start"
  /\ UNCHANGED <<server_vars, app>>
  /\ result' = GetDxfLayers(problem, doc.records)
  /\ pc' = "listed"
  /\ UNCHANGED <<impl, doc, problem, active_layers, tol, scale, lines, rounded,
                 G, dead_ends, extensions, final_lines, polys, valid_polys>>

\* dxf_utils.py:47-51 / dxf_app.py:50-54
Round ==
  /\ pc = "lines"
  /\ UNCHANGED <<server_vars, app>>
  /\ rounded' = Canonicalize(lines)
  /\ pc' = "rounded"
  /\ UNCHANGED <<impl, doc, problem, active_layers, tol, scale, lines, G, dead_ends,
                 extensions, final_lines, polys, valid_polys, result>>

\* dxf_utils.py:53-55 / dxf_app.py:56-58
Graph ==
  /\ pc = "rounded"
  /\ UNCHANGED <<server_vars, app>>
  /\ G' = BuildGraph(rounded)
  /\ dead_ends' = DeadEnds(G')
  /\ pc' = "graph"
  /\ UNCHANGED <<impl, doc, problem, active_layers, tol, scale, lines, rounded,
                 extensions, final_lines, polys, valid_polys, result>>

\* dxf_utils.py:57-63 / dxf_app.py:60-66
Bridge ==
  /\ pc = "graph"
  /\ UNCHANGED <<server_vars, app>>
  /\ extensions' = CloseGaps(rounded, dead_ends, tol, scale)
  /\ pc' = "extended"
  /\ UNCHANGED <<impl, doc, problem, active_layers, tol, scale, lines, rounded, G,
                 dead_ends, final_lines, polys, valid_polys, result>>

\* dxf_utils.py:65-67 / dxf_app.py:68-70
Noding ==
  /\ pc = "extended"
  /\ UNCHANGED <<server_vars, app>>
  /\ final_lines' = Node(rounded \o extensions)
  /\ pc' = "noded"
  /\ UNCHANGED <<impl, doc, problem, active_layers, tol, scale, lines, rounded, G,
                 dead_ends, extensions, polys, valid_polys, result>>

\* dxf_utils.py:69 / dxf_app.py:72
Faces ==
  /\ pc = "noded"
  /\ UNCHANGED <<server_vars, app>>
  /\ polys' = Polygonize(final_lines)
  /\ pc' = "faces"
  /\ UNCHANGED <<impl, doc, problem, active_layers, tol, scale, lines, rounded, G,
                 dead_ends, extensions, final_lines, valid_polys,
                 result>>

\* dxf_utils.py:70-71 / dxf_app.py:73-74
Rank ==
  /\ pc = "faces"
  /\ UNCHANGED <<server_vars, app>>
  /\ valid_polys' = SortByAreaDesc(FilterValid(polys, scale))
  /\ pc' = "ranked"
  /\ UNCHANGED <<impl, doc, problem, active_layers, tol, scale, lines, rounded, G,
                 dead_ends, extensions, final_lines, polys, result>>

\* dxf_utils.py:73-96 / dxf_app.py:76
Return ==
  /\ pc = "ranked"
  /\ UNCHANGED <<server_vars, app>>
  /\ result' = Returned(impl, valid_polys, scale)
  /\ pc' = "done"
  /\ UNCHANGED <<impl, doc, problem, active_layers, tol, scale, lines, rounded, G,
                 dead_ends, extensions, final_lines, polys, valid_polys>>

Next ==
  ListLayers \/ Read \/ Round \/ Graph \/ Bridge \/ Noding \/ Faces \/ Rank \/ Return

Spec == Init /\ [][Next]_vars

\* dxf_utils.py:20-81 / dxf_app.py:25-76  the whole run as a function of its
\* inputs: the ranked polygons, or "raised" when ingestion raises.
Pipeline(im, active, records, units, t) ==
  IF ReadRaises(im, active, records) THEN "raised"
  ELSE LET sc == ScaleOf(units)
           rd == Canonicalize(ReadLines(im, active, records))
           ex == CloseGaps(rd, DeadEnds(BuildGraph(rd)), t, sc)
       IN SortByAreaDesc(FilterValid(Polygonize(Node(rd \o ex)), sc))

\* ------------------------------------------------------------ the service
\* src/CAD-parser/main.py: POST /cad/process, handled by process_cad, which
\* saves the upload under UPLOAD_DIR, calls process_dxf_geometry on the saved
\* path and removes the file.

\* dxf_utils.py:20-96  process_dxf_geometry(file_path, active_layers) on the
\* content found at file_path.
ProcessDxfGeometry(content, active) ==
  IF ~content.readable THEN ReadFailed(content.problem)
  ELSE Returned("dxf_utils",
                Pipeline("dxf_utils", active, content.doc.records,
                         content.doc.units, EXTENSION_TOLERANCE),
                ScaleOf(content.doc.units))

\* dxf_utils.py:31-33  len(active_layers) on a value without a length raises
\* TypeError, at the first entity of a readable drawing.
LayerCheckRaises(content, layers) ==
  /\ content.readable
  /\ ~layers.sized
  /\ Len(content.doc.records) > 0

\* What a path of UPLOAD_DIR holds; a missing file cannot be read.
ReadFile(dir, path) ==
  IF \E f \in dir : f[1] = path
  THEN (CHOOSE f \in dir : f[1] = path)[2]
  ELSE [readable |-> FALSE, problem |-> "No such file",
        doc |-> [records |-> <<>>, units |-> 0]]

\* main.py:158-159  temp_file_path.open("wb") and copyfileobj: creates or
\* overwrites the file.
SaveFile(dir, path, content) ==
  {f \in dir : f[1] # path} \cup {<<path, content>>}

\* main.py:189-192  temp_file_path.unlink() when the path exists.
Unlink(dir, path) == {f \in dir : f[1] # path}

\* The uploads of the modelled requests: three drawings in metres and a file
\* that is not a DXF document.
Uploads ==
  {[readable |-> TRUE, problem |-> "", doc |-> d] :
     d \in {e \in Drawings :
              /\ e.units = 6
              /\ e.records \in {<<Pool[5]>>, <<Pool[6]>>, <<Pool[14]>>}}}
  \cup {[readable |-> FALSE, problem |-> "Not a DXF file",
         doc |-> [records |-> <<>>, units |-> 0]]}

\* Upload file names, as <<stem, extension>>.
FileNames == {<<"plan", ".dxf">>, <<"notes", ".txt">>}

\* The layers form field: a JSON array of layer names, text json.loads
\* rejects, or a JSON number (a value without a length).
LayersForms ==
  {[ok |-> TRUE, sized |-> TRUE, value |-> L] : L \in {{}, {"A"}}}
    \cup {[ok |-> FALSE, sized |-> TRUE, value |-> {}],
          [ok |-> TRUE, sized |-> FALSE, value |-> {}]}

Forms == [file : Uploads, filename : FileNames, layers : LayersForms]

\* main.py:143  no file name, or a name ending in .dxf or .dwg.
ValidExtension(name) == name = <<"", "">> \/ name[2] \in {".dxf", ".dwg"}

\* main.py:157  UPLOAD_DIR / f"{request_id}_{file.filename}"
TempFilePath(request_id, name) == <<request_id, name>>

BadRequest(detail) == [status |-> 400, detail |-> detail]

\* main.py:185-187  except Exception as e: HTTPException(500, detail=str(e))
InternalError(detail) == [status |-> 500, detail |-> detail]

\* main.py:169-181  the answer for what process_dxf_geometry returned.
Answer(out) ==
  IF out.error # "None" THEN BadRequest(out.error)
  ELSE [status |-> 200,
        body |-> [polygons |-> out.polygons, scale |-> out.scale,
                  bounds |-> out.bounds]]

CanStartAlways(busy) == TRUE

\* main.py:123, 291  process_cad is a coroutine without an await, served by
\* the single event loop of uvicorn.run(app): a handler starts only when no
\* other handler is in progress, and then runs to its end.
CanStart(busy) == busy = 0

ServerInit ==
  /\ impl = "dxf_utils"
  /\ doc = [records |-> <<>>, units |-> 0]
  /\ problem = ""
  /\ active_layers = [is_none |-> TRUE, layers |-> {}]
  /\ tol = EXTENSION_TOLERANCE
  /\ pc = "start"
  /\ scale = <<0, 1>>
  /\ lines = <<>>
  /\ rounded = <<>>
  /\ G = BuildGraph(<<>>)
  /\ dead_ends = <<>>
  /\ extensions = <<>>
  /\ final_lines = {}
  /\ polys = <<>>
  /\ valid_polys = <<>>
  /\ result = <<>>
  /\ upload_dir = {}
  /\ requests \in [1..2 -> {[form |-> f, pc |-> "pending", temp_file_path |-> <<>>,
                             out |-> <<>>, raised |-> "", response |-> [status |-> 0]] :
                            f \in Forms}]
  /\ running = 0
  /\ clock = 0
  /\ app = NewApp

pipeline_vars ==
  <<impl, doc, problem, active_layers, tol, pc, scale, lines, rounded, G, dead_ends,
    extensions, final_lines, polys, valid_polys, result>>

\* main.py:137-163  request_id, the extension check, json.loads(layers) and
\* the save of the upload.
Accept(r) ==
  /\ requests[r].pc = "pending"
  /\ CanStart(running)
  /\ LET q == requests[r].form
         path == TempFilePath(clock, q.filename)
     IN IF ~ValidExtension(q.filename)
        THEN /\ requests' = [requests EXCEPT
                  ![r].response = BadRequest("File must be a DXF or DWG file"),
                  ![r].pc = "responded"]
             /\ UNCHANGED <<upload_dir, running>>
        ELSE IF ~q.layers.ok
        THEN /\ requests' = [requests EXCEPT
                  ![r].response = BadRequest("Invalid layers format. Must be a JSON array."),
                  ![r].pc = "responded"]
             /\ UNCHANGED <<upload_dir, running>>
        ELSE /\ upload_dir' = SaveFile(upload_dir, path, q.file)
             /\ requests' = [requests EXCEPT ![r].temp_file_path = path,
                                             ![r].pc = "saved"]
             /\ running' = r
  /\ UNCHANGED <<clock, pipeline_vars, app>>

\* main.py:165-167  process_dxf_geometry(str(temp_file_path), active_layers)
Process(r) ==
  /\ requests[r].pc = "saved"
  /\ LET content == ReadFile(upload_dir, requests[r].temp_file_path)
     IN IF LayerCheckRaises(content, requests[r].form.layers)
        THEN requests' = [requests EXCEPT
               ![r].raised = "object of type 'int' has no len()",
               ![r].pc = "processed"]
        ELSE requests' = [requests EXCEPT
               ![r].out = ProcessDxfGeometry(content,
                            [is_none |-> FALSE,
                             layers |-> requests[r].form.layers.value]),
               ![r].pc = "processed"]
  /\ UNCHANGED <<upload_dir, running, clock, pipeline_vars, app>>

\* main.py:169-187  the response: the answer, or 500 for an exception that
\* is not an HTTPException.
Respond(q) ==
  IF q.raised # "" THEN InternalError(q.raised) ELSE Answer(q.out)

\* A handler that removes the file at the end of the successful path only.
FinishCleaningOnSuccess(r) ==
  /\ requests[r].pc = "processed"
  /\ requests' = [requests EXCEPT ![r].response = Respond(requests[r]),
                                  ![r].pc = "responded"]
  /\ upload_dir' = IF Respond(requests[r]).status = 200
                   THEN Unlink(upload_dir, requests[r].temp_file_path)
                   ELSE upload_dir
  /\ running' = 0
  /\ UNCHANGED <<clock, pipeline_vars, app>>

\* main.py:169-194  the response, and the finally clause removing the file.
Finish(r) ==
  /\ requests[r].pc = "processed"
  /\ requests' = [requests EXCEPT ![r].response = Respond(requests[r]),
                                  ![r].pc = "responded"]
  /\ upload_dir' = Unlink(upload_dir, requests[r].temp_file_path)
  /\ running' = 0
  /\ UNCHANGED <<clock, pipeline_vars, app>>

\* main.py:137  time passes between readings of time.time().
Tick ==
  /\ clock < MaxClock
  /\ clock' = clock + 1
  /\ UNCHANGED <<upload_dir, requests, running, pipeline_vars, app>>

ServerNext ==
  \/ Tick
  \/ \E r \in 1..2 : Accept(r) \/ Process(r) \/ Finish(r)

ServerSpec == ServerInit /\ [][ServerNext]_vars

\* ------------------------------------------------------- the desktop tool
\* src/CAD-parser/dxf_app.py: DXFAnalyzerApp, the Tk window that loads a
\* drawing through get_dxf_layers and process_dxf and lets the user mark the
\* polygons as site or building.

\* dxf_app.py:25-76  process_dxf(file_path, active_layers) on the content of
\* the file; raised tells that the call raised instead of returning.
ProcessDxf(content, active) ==
  IF ~content.readable
  THEN [raised |-> FALSE] @@ ReadError("dxf_app", content.problem)
  ELSE IF ReadRaises("dxf_app", active, content.doc.records)
  THEN [raised |-> TRUE, polygons |-> <<>>, scale |-> <<0, 1>>, error |-> "None"]
  ELSE [raised |-> FALSE] @@
       Returned("dxf_app",
                Pipeline("dxf_app", active, content.doc.records,
                         content.doc.units, EXTENSION_TOLERANCE),
                ScaleOf(content.doc.units))

\* The files the user can pick: an outline nested in another, a file that
\* is not a DXF document, and a drawing whose closed polyline has no points.
AppFiles ==
  << [readable |-> TRUE, problem |-> "",
      doc |-> [records |-> <<Pool[6], Pool[14]>>, units |-> 6]],
     [readable |-> FALSE, problem |-> "Not a DXF file",
      doc |-> [records |-> <<>>, units |-> 0]],
     [readable |-> TRUE, problem |-> "",
      doc |-> [records |-> <<Pool[8]>>, units |-> 6]] >>

\* dxf_app.py:245  process_dxf(self.current_file, active_layers=...) on the
\* k-th file with the checked layers S.
Processed(k, S) ==
  ProcessDxf(AppFiles[k], [is_none |-> FALSE, layers |-> S])

\* dxf_app.py:218  get_dxf_layers(file_path) on the k-th file.
Listed(k) == GetDxfLayers(AppFiles[k].problem, AppFiles[k].doc.records)

\* dxf_app.py:124-126  what LayerSelectionDialog can leave in dialog.result:
\* None when the window is closed, else the checked layers.
DialogResults(layers) ==
  {[is_none |-> TRUE, layers |-> {}]} \cup
  {[is_none |-> FALSE, layers |-> S] : S \in SUBSET Range(layers)}

\* A run that drops the polygons when process_dxf reports an error.
ProcessingClearing(a, out) ==
  IF out.error # "None" THEN [a EXCEPT !.polys = <<>>]
  ELSE [a EXCEPT !.polys = out.polygons,
                 !.scale = out.scale,
                 !.selections = [i \in 0..(Len(out.polygons) - 1) |-> Unselected]]

\* dxf_app.py:247-258  run_processing once process_dxf has returned out.
Processing(a, out) ==
  IF out.error # "None" THEN a
  ELSE [a EXCEPT !.polys = out.polygons,
                 !.scale = out.scale,
                 !.selections = [i \in 0..(Len(out.polygons) - 1) |-> Unselected]]

\* dxf_app.py:241-258  run_processing, out being what the call of
\* process_dxf does; when it raises, the callback ends there.
RunProcessing(a, out) == IF out.raised THEN a ELSE Processing(a, out)

\* polygon.contains(point): the point lies in the interior, so each of the
\* four quadrants around it lies in a cell of the polygon.
Contains(p, pt) ==
  \A sx, sy \in {0, 1} :
    \E c \in p.cells :
      /\ IF sx = 1 THEN c[1] <= pt[1] /\ pt[1] < c[3]
                   ELSE c[1] < pt[1] /\ pt[1] <= c[3]
      /\ IF sy = 1 THEN c[2] <= pt[2] /\ pt[2] < c[4]
                   ELSE c[2] < pt[2] /\ pt[2] <= c[4]

\* dxf_app.py:383-385  box(...).intersects(p): the closed box and the closed
\* polygon share a point.
Intersects(b, p) ==
  \E c \in p.cells :
    /\ b[1] <= c[3] /\ c[1] <= b[3]
    /\ b[2] <= c[4] /\ c[2] <= b[4]

\* dxf_app.py:394  Polygon(self.polys[parent_index].exterior): the outline
\* without its holes.
Envelope(p) == p.ring

\* The point with doubled coordinates pt2 lies inside closed ring r: a ray
\* to the right crosses an odd number of vertical edges.
InsideRing(pt2, r) ==
  Cardinality({k \in 1..(Len(r) - 1) :
     /\ r[k][1] = r[k + 1][1]
     /\ 2 * r[k][1] > pt2[1]
     /\ 2 * Min({r[k][2], r[k + 1][2]}) < pt2[2]
     /\ pt2[2] < 2 * Max({r[k][2], r[k + 1][2]})}) % 2 = 1

\* dxf_app.py:397  parent_envelope.covers(other_poly)
Covers(r, q) ==
  \A c \in q.cells : InsideRing(<<c[1] + c[3], c[2] + c[4]>>, r)

\* Containment by the parent polygon itself, holes included.
ApplySiteContainmentByFace(ps, sel, parent_index) ==
  [j \in DOMAIN sel |->
     IF j # parent_index /\ ps[j + 1].cells \subseteq ps[parent_index + 1].cells
     THEN [sel[j] EXCEPT !.site = TRUE] ELSE sel[j]]

\* dxf_app.py:393-398  apply_site_containment
ApplySiteContainment(ps, sel, parent_index) ==
  [j \in DOMAIN sel |->
     IF j # parent_index /\ Covers(Envelope(ps[parent_index + 1]), ps[j + 1])
     THEN [sel[j] EXCEPT !.site = TRUE] ELSE sel[j]]

\* dxf_app.py:371-377, 386-391  turning mode on for polygon i.
SwitchOn(a, sel, i) ==
  LET on == IF a.current_mode = "building"
            THEN [sel EXCEPT ![i].building = TRUE,
                             ![i].is_footprint = a.is_footprint_var,
                             ![i].floors = a.floor_count_var]
            ELSE [sel EXCEPT ![i].site = TRUE]
  IN IF a.current_mode = "site" THEN ApplySiteContainment(a.polys, on, i)
     ELSE on

\* dxf_app.py:368-380  handle_single_click: the last polygon of the list
\* that contains the point is toggled.
HandleSingleClick(a, pt) ==
  LET hit == {i \in DOMAIN a.selections : Contains(a.polys[i + 1], pt)}
  IN IF hit = {} THEN a.selections
     ELSE LET i == Max(hit)
          IN IF ~a.selections[i][a.current_mode]
             THEN SwitchOn(a, a.selections, i)
             ELSE [a.selections EXCEPT ![i][a.current_mode] = FALSE]

\* dxf_app.py:382-391  handle_box_selection from polygon i on, in list order.
RECURSIVE BoxFrom(_, _, _, _)
BoxFrom(a, sel, b, i) ==
  IF i >= Len(a.polys) THEN sel
  ELSE BoxFrom(a, IF Intersects(b, a.polys[i + 1]) THEN SwitchOn(a, sel, i)
                  ELSE sel,
               b, i + 1)

HandleBoxSelection(a, p1, p2) ==
  BoxFrom(a, a.selections,
          <<Min({p1[1], p2[1]}), Min({p1[2], p2[2]}),
            Max({p1[1], p2[1]}), Max({p1[2], p2[2]})>>, 0)

\* Where the mouse is clicked, in milli-units.
MousePoints == {<<1925, 120>>, <<1000, 500>>, <<3000, 500>>}

\* Where a drag starts and ends, in milli-units.
MouseDrags ==
  {<<(<<1000, 500>>), (<<1925, 120>>)>>, <<(<<30, 30>>), (<<20, 10>>)>>,
   <<(<<1910, 110>>), (<<1940, 130>>)>>}

AppInit ==
  /\ impl = "dxf_app"
  /\ doc = [records |-> <<>>, units |-> 0]
  /\ problem = ""
  /\ active_layers = [is_none |-> TRUE, layers |-> {}]
  /\ tol = EXTENSION_TOLERANCE
  /\ pc = "start"
  /\ scale = <<0, 1>>
  /\ lines = <<>>
  /\ rounded = <<>>
  /\ G = BuildGraph(<<>>)
  /\ dead_ends = <<>>
  /\ extensions = <<>>
  /\ final_lines = {}
  /\ polys = <<>>
  /\ valid_polys = <<>>
  /\ result = <<>>
  /\ upload_dir = {}
  /\ requests = <<>>
  /\ running = 0
  /\ clock = 0
  /\ app = NewApp

\* dxf_app.py:211-231  load_file with the file the user picked and what the
\* layer dialog left.
LoadFile(k, res) ==
  /\ k \in 1..Len(AppFiles)
  /\ LET picked == [app EXCEPT !.current_file = k]
         listed == [picked EXCEPT !.all_layers = Listed(k).layers]
     IN IF Listed(k).error # "None" THEN app' = picked
        ELSE /\ res \in DialogResults(Listed(k).layers)
             /\ IF res.is_none
                THEN app' = listed
                ELSE LET chosen == [listed EXCEPT !.active_layers = res]
                         out == Processed(k, res.layers)
                     IN app' = IF out.raised THEN RunProcessing(chosen, out)
                               ELSE [RunProcessing(chosen, out) EXCEPT
                                       !.btn_layers = "normal"]
  /\ UNCHANGED <<pipeline_vars, server_vars>>

\* dxf_app.py:233-239  open_layer_dialog
OpenLayerDialog(res) ==
  /\ app.btn_layers = "normal"
  /\ app.current_file # 0
  /\ res \in DialogResults(app.all_layers)
  /\ ~res.is_none
  /\ app' = RunProcessing([app EXCEPT !.active_layers = res],
                          Processed(app.current_file, res.layers))
  /\ UNCHANGED <<pipeline_vars, server_vars>>

\* dxf_app.py:169-173  the mode radio buttons; the footprint check box and
\* the floors spin box are left as they start.
SetMode(mode) ==
  /\ app.current_mode # mode
  /\ app' = [app EXCEPT !.current_mode = mode]
  /\ UNCHANGED <<pipeline_vars, server_vars>>

\* dxf_app.py:306-366  press and release of the left button at one point.
Click(pt) ==
  /\ app.polys # <<>>
  /\ app' = [app EXCEPT !.selections = HandleSingleClick(app, pt)]
  /\ UNCHANGED <<pipeline_vars, server_vars>>

\* dxf_app.py:306-366  press at p1, release at p2: a box selection.
Drag(p1, p2) ==
  /\ app.polys # <<>>
  /\ p1 # p2
  /\ app' = [app EXCEPT !.selections = HandleBoxSelection(app, p1, p2)]
  /\ UNCHANGED <<pipeline_vars, server_vars>>

\* dxf_app.py:400-404  clear_selection, the Reset button.
ClearSelection ==
  /\ app' = [app EXCEPT !.selections = [i \in DOMAIN app.selections |-> Unselected]]
  /\ UNCHANGED <<pipeline_vars, server_vars>>

AppNext ==
  \/ \E k \in 1..Len(AppFiles), res \in DialogResults(LayerNames) : LoadFile(k, res)
  \/ \E res \in DialogResults(LayerNames) : OpenLayerDialog(res)
  \/ \E mode \in {"site", "building"} : SetMode(mode)
  \/ \E pt \in MousePoints : Click(pt)
  \/ \E d \in MouseDrags : Drag(d[1], d[2])
  \/ ClearSelection

AppSpec == AppInit /\ [][AppNext]_vars

\* ---------------------------------------------------------------- claims
Bridged == pc \in {"extended", "noded", "faces", "ranked", "done"}

\* The unordered endpoint pairs of the canonical segments that touch n.
IncidentPairs(n) ==
  {pr \in {{rounded[i][1], rounded[i][2]} : i \in 1..Len(rounded)} : n \in pr}

\* The canonical segments that do not touch p.
NotTouching(p) == {s \in Range(rounded) : p # s[1] /\ p # s[2]}

\* C1: the returned polygon list is ordered by raw area descending:
\* polygons[i].areaRaw >= polygons[i+1].areaRaw for every i.
C1_AreaMonotone ==
  pc = "done" =>
    \A i \in 1..(Len(valid_polys) - 1) :
      valid_polys[i].area >= valid_polys[i + 1].area

\* C1 witness: a finished run whose two polygons polygonize produced smallest
\* first and the ranking turned round.
C1_Witness ==
  /\ pc = "done"
  /\ Len(valid_polys) = 2
  /\ Len(polys) = 2
  /\ polys[1].area < polys[2].area
  /\ valid_polys[1].area > valid_polys[2].area

\* area * scale^2 below, or equal to, the minimum of 0.001 m^2.
ScaledBelowMin(p) ==
  WLess(WMul(WMul(ToWide(p.area), scale[1]), scale[1]),
        WMul(WMul(ToWide(MIN_AREA), scale[2]), scale[2]))
ScaledEqualsMin(p) ==
  WMul(WMul(ToWide(p.area), scale[1]), scale[1])
    = WMul(WMul(ToWide(MIN_AREA), scale[2]), scale[2])

\* C2 as claimed: the output holds exactly the bounded faces whose areaScaled
\* is not below the minimum, so a face whose areaScaled equals it is kept.
C2_KeepsAtMinimum ==
  pc = "done" =>
    \A k \in 1..Len(polys) :
      polys[k] \in Range(valid_polys) <=> ~ScaledBelowMin(polys[k])

\* C2 amended: the output holds exactly the bounded faces whose areaScaled is
\* strictly above the minimum, each once; a face whose areaScaled equals the
\* minimum is dropped.
C2_KeepsAboveMinimum ==
  pc = "done" =>
    /\ \A k \in 1..Len(polys) :
         polys[k] \in Range(valid_polys)
           <=> ~ScaledBelowMin(polys[k]) /\ ~ScaledEqualsMin(polys[k])
    /\ Range(valid_polys) \subseteq Range(polys)
    /\ Cardinality(Range(valid_polys)) = Len(valid_polys)

\* C2 witness: a finished run that dropped a face of exactly the minimum area
\* and kept a larger one.
C2_Witness ==
  /\ pc = "done"
  /\ \E k \in 1..Len(polys) :
       ScaledEqualsMin(polys[k]) /\ polys[k] \notin Range(valid_polys)
  /\ valid_polys # <<>>

\* C3: each bridge's nearest point is taken over the original segments that do
\* not touch its dangling endpoint p, so it is never p itself.
C3_NearestExcludesOwnSegments ==
  Bridged =>
    \A i \in 1..Len(extensions) :
      LET p == extensions[i][1]
          q == extensions[i][2]
      IN /\ q # p
         /\ \E s \in NotTouching(p) :
              /\ q = NearestOnSeg(p, s)
              /\ \A t \in NotTouching(p) :
                   Dist2(p, q) <= Dist2(p, NearestOnSeg(p, t))

\* C4: a dangling endpoint whose minimum distance d to the segments not
\* touching it is defined gets a bridge if and only if d < T / scale, and with
\* T = 0 no bridge is added.
C4_BridgeIffWithinTolerance ==
  Bridged =>
    /\ \A i \in 1..Len(dead_ends) :
         LET p == dead_ends[i] IN
           NotTouching(p) # {} =>
             ((\E j \in 1..Len(extensions) : extensions[j][1] = p)
                <=> \E s \in NotTouching(p) :
                      WithinTolerance(Dist2(p, NearestOnSeg(p, s)), tol, scale))
    /\ tol = 0 => extensions = <<>>

\* C5: a bridge originates only at a node touched by exactly one canonical
\* segment; every such node is a bridging candidate and no node touched by two
\* or more is.
C5_BridgesOnlyFromDegreeOne ==
  /\ pc \in {"graph", "extended", "noded", "faces", "ranked", "done"} =>
       Range(dead_ends) =
         {n \in Range(Endpoints(rounded)) : Cardinality(IncidentPairs(n)) = 1}
  /\ Bridged =>
       \A i \in 1..Len(extensions) :
         Cardinality(IncidentPairs(extensions[i][1])) = 1

\* C5 witness: bridges exist while a node of degree 2 that lies on the
\* drawing, next to other segments, originates none.
C5_Witness ==
  /\ pc = "extended"
  /\ extensions # <<>>
  /\ \E n \in Range(G.nodes) :
       /\ Degree(G, n) >= 2
       /\ \A i \in 1..Len(extensions) : extensions[i][1] # n

\* C6: gap closing is one pass over the original dangling endpoints against
\* the original segments: at most one bridge per dangling endpoint, each from
\* a dangling endpoint of the original graph to a point of an original segment.
C6_SinglePass ==
  Bridged =>
    /\ Len(extensions) <= Len(dead_ends)
    /\ \A i \in 1..Len(extensions) :
         /\ extensions[i][1] \in Range(DeadEnds(BuildGraph(rounded)))
         /\ \E s \in Range(rounded) : OnSegment(extensions[i][2], s)
         /\ \A j \in 1..Len(extensions) :
              extensions[j][1] = extensions[i][1] => j = i

\* C6 witness: the pass has bridged every one of several dangling endpoints.
C6_Witness ==
  /\ pc = "extended"
  /\ Len(dead_ends) >= 2
  /\ Len(extensions) = Len(dead_ends)

WellFormed(e) == e.kind = "LINE" \/ Len(e.pts) >= 2

\* C7: a polyline with fewer than 2 points never aborts the run, and the
\* result equals the result of the same input without the malformed records.
C7_MalformedSkipped ==
  /\ pc # "raised"
  /\ pc = "done" =>
       valid_polys =
         Pipeline(impl, active_layers, SelectSeq(doc.records, WellFormed),
                  doc.units, tol)

\* No entity of the drawing has two points that differ after rounding.
NoSegmentInput ==
  \A i \in 1..Len(doc.records) :
    \A a, b \in Range(doc.records[i].pts) : RoundPt(a) = RoundPt(b)

NothingBuilt ==
  /\ rounded = <<>>
  /\ dead_ends = <<>>
  /\ extensions = <<>>
  /\ final_lines = {}
  /\ polys = <<>>
  /\ valid_polys = <<>>

\* C8: empty input (no records, or no record yielding a segment) gives an
\* empty polygon list and no error: no segment, no dangling endpoint, no
\* bridge, no noded edge and no face at any point of the run.
C8_EmptyInput ==
  /\ doc.records = <<>> => pc # "raised" /\ NothingBuilt
  /\ (impl = "dxf_utils" /\ NoSegmentInput) => pc # "raised" /\ NothingBuilt

\* C8 witness: a run over entities that yield no segment has finished.
C8_Witness ==
  /\ pc = "done"
  /\ impl = "dxf_utils"
  /\ Len(doc.records) >= 2
  /\ lines # <<>>
  /\ NoSegmentInput
  /\ valid_polys = <<>>

\* C9 as claimed: the canonical segments never hold the same unordered pair of
\* rounded endpoints twice.
C9_NoRepeatedSegment ==
  \A i, j \in 1..Len(rounded) :
    {rounded[i][1], rounded[i][2]} = {rounded[j][1], rounded[j][2]} => i = j

\* C9 amended: the canonical segment list may repeat a segment; the
\* connectivity graph holds one edge per unordered pair of rounded endpoints,
\* so a node's degree counts a segment drawn twice, or once in each
\* direction, once.
C9_GraphCountsSegmentOnce ==
  pc \in {"graph", "extended", "noded", "faces", "ranked", "done"} =>
    /\ Range(G.nodes) = Range(Endpoints(rounded))
    /\ \A n \in Range(G.nodes) : Degree(G, n) = Cardinality(IncidentPairs(n))

\* C9 witness: a segment is held twice and both its ends have degree 1.
C9_Witness ==
  /\ pc = "graph"
  /\ \E i, j \in 1..Len(rounded) :
       /\ i # j
       /\ {rounded[i][1], rounded[i][2]} = {rounded[j][1], rounded[j][2]}
       /\ Degree(G, rounded[i][1]) = 1
       /\ Degree(G, rounded[i][2]) = 1

\* C10: every segment held after ingestion, original or bridge, has two
\* endpoints that differ after rounding; none of zero length reaches noding.
C10_NoZeroLengthSegment ==
  \A l \in Range(rounded \o extensions) : l[1] # l[2]

\* The raw segments dropped because their endpoints coincide after rounding.
DroppedDegenerate == Len(lines) - Len(rounded)

\* The dangling endpoints that received no bridge.
Unbridged ==
  {p \in Range(dead_ends) : \A i \in 1..Len(extensions) : extensions[i][1] # p}

\* The faces the area filter drops.
Slivers == {i \in 1..Len(polys) : ~AreaAbove(polys[i].area, scale)}

ResultFields ==
  IF impl = "dxf_utils" THEN {"polygons", "scale", "bounds", "error"}
  ELSE {"polygons", "scale", "error"}

\* C11 as claimed: next to the polygons the result carries two diagnostic
\* counts, the degenerate segments dropped and the dangling endpoints left
\* unbridged: at least two components besides polygons, scale, bounds, error.
C11_CarriesDiagnosticCounts ==
  pc = "done" =>
    Cardinality(DOMAIN result \ {"polygons", "scale", "bounds", "error"}) >= 2

\* C11 amended: a finished run returns the polygons, the scale, (in
\* process_dxf_geometry) the bounds and the error None, and nothing else;
\* dropped degenerate segments, unbridged dangling endpoints and filtered
\* slivers are not counted anywhere in the result and never make it a failure.
C11_SilentNeverFailure ==
  pc = "done" =>
    /\ DOMAIN result = ResultFields
    /\ result.error = "None"
    /\ Len(result.polygons) = Len(polys) - Cardinality(Slivers)

\* C11 witness: a run returned after leaving a dangling endpoint unbridged
\* and filtering a sliver.
C11_Witness ==
  /\ pc = "done"
  /\ Unbridged # {}
  /\ Slivers # {}
  /\ result.error = "None"

\* C11 witness of the other count: a run returned after dropping a
\* degenerate segment.
C11_DroppedWitness ==
  /\ pc = "done"
  /\ DroppedDegenerate > 0
  /\ result.error = "None"

\* The exterior ring of the i-th returned polygon: its "points" in
\* process_dxf_geometry, the exterior of the shapely polygon in process_dxf.
OutRing(i) ==
  IF impl = "dxf_utils" THEN result.polygons[i].points
  ELSE result.polygons[i].ring

SimpleClosedRing(r) ==
  /\ Len(r) >= 4
  /\ r[1] = r[Len(r)]
  /\ \A i, j \in 1..(Len(r) - 1) : i # j => r[i] # r[j]

\* C13: every output polygon's ring is a simple closed ring: at least 3
\* distinct points, the last point equal to the first, and apart from that
\* closing point no point occurs twice.
C13_SimpleClosedRings ==
  pc = "done" =>
    \A i \in 1..Len(result.polygons) : SimpleClosedRing(OutRing(i))

\* C13 witness: process_dxf_geometry returned a polygon whose ring passes
\* through more than four vertices (an L-shaped face, or a side carrying a
\* noded vertex).
C13_Witness ==
  /\ pc = "done"
  /\ impl = "dxf_utils"
  /\ \E i \in 1..Len(result.polygons) : Len(result.polygons[i].points) > 5

\* All entities of the drawing were read and every line survived rounding.
AllRead ==
  /\ \A i \in 1..Len(doc.records) : Selected(impl, active_layers, doc.records[i])
  /\ Len(rounded) = Len(lines)
  /\ lines # <<>>

\* The rectangle 0.05 x 0.04 drawn as one open polyline that starts and ends
\* on its bottom side, leaving the gap (0.024, 0)..(0.025, 0).
GapRectangle == Pool[13]

\* C14: a rectangle outline closed except for one gap between two collinear
\* segment ends on one side yields exactly one face, the rectangle, when the
\* tolerance exceeds the gap, and no face when the tolerance is 0.
C14_CollinearGapClosed ==
  ( /\ pc = "done"
    /\ doc.records = <<GapRectangle>>
    /\ AllRead
    /\ AreaAbove(50 * 40, scale) ) =>
      IF tol = 0 THEN valid_polys = <<>>
      ELSE WithinTolerance(1, tol, scale) =>
             /\ Len(valid_polys) = 1
             /\ valid_polys[1].cells = {<<0, 0, 50, 40>>}

\* The square outline 0.025 x 0.04 drawn as one open polyline whose last side
\* stops at (0, 0.001), short of the corner (0, 0).
ShortSideSquare == Pool[12]

\* C15: a square closed except that one side stops short of a corner by a
\* gap below T/scale gets a bridging segment from the dangling endpoint
\* across the gap to the neighbouring side, and so encloses exactly one face.
C15_CornerGapBridged ==
  ( /\ pc = "done"
    /\ doc.records = <<ShortSideSquare>>
    /\ AllRead
    /\ tol = EXTENSION_TOLERANCE
    /\ WithinTolerance(1, tol, scale) ) =>
      /\ \E i \in 1..Len(extensions) : extensions[i] = <<(<<0, 1>>), (<<0, 0>>)>>
      /\ Len(polys) = 1
      /\ AreaAbove(polys[1].area, scale) => Len(valid_polys) = 1

\* A closed polyline of at least three vertices: a ring.
IsRing(e) == e.kind = "LWPOLYLINE" /\ e.closed /\ Len(e.pts) >= 3

\* The vertices of ring entity e after rounding.
RingVertices(e) == [i \in 1..Len(e.pts) |-> RoundPt(e.pts[i])]

\* Twice the signed area enclosed by the closed vertex sequence v.
RECURSIVE Shoelace2(_, _)
Shoelace2(v, i) ==
  IF i > Len(v) THEN 0
  ELSE LET j == IF i = Len(v) THEN 1 ELSE i + 1
       IN v[i][1] * v[j][2] - v[j][1] * v[i][2] + Shoelace2(v, i + 1)

\* The area enclosed by ring entity e, in milli^2.
Enclosed(e) ==
  LET t == Shoelace2(RingVertices(e), 1) IN (IF t < 0 THEN 0 - t ELSE t) \div 2

\* The raw area of the i-th returned polygon.
OutArea(i) ==
  IF impl = "dxf_utils" THEN result.polygons[i].area_raw
  ELSE result.polygons[i].area

\* The drawing is exactly one ring and all of it was read.
SingleRing == Len(doc.records) = 1 /\ IsRing(doc.records[1]) /\ AllRead

\* C16 as claimed: a single closed ring with no other geometry yields
\* exactly one polygon.
C16_SingleRingOnePolygon ==
  (pc = "done" /\ SingleRing) => Len(result.polygons) = 1

\* C16 amended: a single closed ring with no other geometry yields exactly
\* one polygon when its enclosed area times scale^2 is above the minimum
\* area, and none otherwise; the ring of that polygon visits exactly the
\* input vertices, its areaRaw is the enclosed area and (in
\* process_dxf_geometry) its areaM2 is the enclosed area times scale^2.
C16_SingleRingAboveMinimum ==
  (pc = "done" /\ SingleRing) =>
    LET e == doc.records[1]
        a == Enclosed(e)
    IN IF WLess(WMul(WMul(ToWide(MIN_AREA), scale[2]), scale[2]),
                WMul(WMul(ToWide(a), scale[1]), scale[1]))
       THEN /\ Len(result.polygons) = 1
            /\ Range(OutRing(1)) = Range(RingVertices(e))
            /\ OutArea(1) = a
            /\ impl = "dxf_utils" =>
                 result.polygons[1].area_m2 =
                   <<WMul(WMul(ToWide(a), scale[1]), scale[1]),
                     WMul(WMul(ToWide(1), scale[2]), scale[2])>>
       ELSE result.polygons = <<>>

\* C16 witness: process_dxf_geometry returned the one polygon of a single
\* ring at scale 1.0, where areaM2 = areaRaw.
C16_Witness ==
  /\ pc = "done"
  /\ SingleRing
  /\ impl = "dxf_utils"
  /\ scale = <<1, 1>>
  /\ Len(result.polygons) = 1
  /\ result.polygons[1].area_m2 = <<ToWide(result.polygons[1].area_raw), ToWide(1)>>

\* The bounding box <<x0, y0, x1, y1>> of ring entity e after rounding.
Box(e) ==
  LET v == RingVertices(e)
  IN <<Min({v[i][1] : i \in 1..Len(v)}), Min({v[i][2] : i \in 1..Len(v)}),
       Max({v[i][1] : i \in 1..Len(v)}), Max({v[i][2] : i \in 1..Len(v)})>>

\* The bounding boxes of a and b lie apart along an axis by a gap g (milli)
\* that the tolerance does not reach: not g < T/scale.
FarApart(a, b) ==
  \E g \in {Box(b)[1] - Box(a)[3], Box(a)[1] - Box(b)[3],
            Box(b)[2] - Box(a)[4], Box(a)[2] - Box(b)[4]} :
    g > 0 /\ ~WithinTolerance(g * g, tol, scale)

\* The drawing is exactly two rings, disjoint and farther apart than the
\* tolerance, and all of it was read.
TwoDisjointRings ==
  /\ Len(doc.records) = 2
  /\ IsRing(doc.records[1])
  /\ IsRing(doc.records[2])
  /\ FarApart(doc.records[1], doc.records[2])
  /\ AllRead

\* The input rings whose enclosed area times scale^2 is above the minimum.
RingsAboveMinimum ==
  {k \in 1..2 :
     WLess(WMul(WMul(ToWide(MIN_AREA), scale[2]), scale[2]),
           WMul(WMul(ToWide(Enclosed(doc.records[k])), scale[1]), scale[1]))}

\* C17 as claimed: two disjoint closed rings farther apart than the gap
\* tolerance yield exactly two polygons.
C17_TwoRingsTwoPolygons ==
  (pc = "done" /\ TwoDisjointRings) => Len(result.polygons) = 2

\* C17 amended: two disjoint closed rings farther apart than the gap
\* tolerance yield one polygon for each ring whose area times scale^2 is
\* above the minimum area, and nothing else: each such ring is the ring of
\* exactly one output polygon (none twice, none merged, none missing).
C17_OnePolygonPerRingAboveMinimum ==
  (pc = "done" /\ TwoDisjointRings) =>
    /\ Len(result.polygons) = Cardinality(RingsAboveMinimum)
    /\ \A k \in RingsAboveMinimum :
         Cardinality({i \in 1..Len(result.polygons) :
            /\ Range(OutRing(i)) = Range(RingVertices(doc.records[k]))
            /\ OutArea(i) = Enclosed(doc.records[k])}) = 1

\* C17 witness: two disjoint rings of equal area were both returned.
C17_Witness ==
  /\ pc = "done"
  /\ TwoDisjointRings
  /\ Len(result.polygons) = 2
  /\ OutArea(1) = OutArea(2)
  /\ Range(OutRing(1)) # Range(OutRing(2))

Noded == pc \in {"noded", "faces", "ranked", "done"}

\* The points two axis-parallel segments have in common, as the box
\* <<x0, y0, x1, y1>>; empty when x0 > x1 or y0 > y1.
Common(e, f) ==
  LET lo(a, b) == IF a <= b THEN a ELSE b
      hi(a, b) == IF a <= b THEN b ELSE a
  IN <<hi(lo(e[1][1], e[2][1]), lo(f[1][1], f[2][1])),
       hi(lo(e[1][2], e[2][2]), lo(f[1][2], f[2][2])),
       lo(hi(e[1][1], e[2][1]), hi(f[1][1], f[2][1])),
       lo(hi(e[1][2], e[2][2]), hi(f[1][2], f[2][2]))>>

\* e and f are apart, or meet in the single point that is an endpoint of both.
MeetOnlyAtSharedEndpoint(e, f) ==
  LET c == Common(e, f)
  IN \/ c[1] > c[3]
     \/ c[2] > c[4]
     \/ /\ c[1] = c[3]
        /\ c[2] = c[4]
        /\ <<c[1], c[2]>> \in {e[1], e[2]} \cap {f[1], f[2]}

\* The point set of the segments S, as the elementary pieces between
\* neighbouring coordinates of the grids X and Y that the segments cover.
PiecesOf(S, X, Y) ==
  {<<a, y, b, y>> : <<a, b, y>> \in
     {t \in X \X X \X Y :
        /\ t[1] < t[2]
        /\ ~\E g \in X : t[1] < g /\ g < t[2]
        /\ \E s \in S : /\ s[1][2] = t[3] /\ s[2][2] = t[3]
                        /\ Min({s[1][1], s[2][1]}) <= t[1]
                        /\ t[2] <= Max({s[1][1], s[2][1]})}}
  \cup
  {<<x, a, x, b>> : <<a, b, x>> \in
     {t \in Y \X Y \X X :
        /\ t[1] < t[2]
        /\ ~\E g \in Y : t[1] < g /\ g < t[2]
        /\ \E s \in S : /\ s[1][1] = t[3] /\ s[2][1] = t[3]
                        /\ Min({s[1][2], s[2][2]}) <= t[1]
                        /\ t[2] <= Max({s[1][2], s[2][2]})}}

\* C18: the noded edges form a non-crossing edge set over the same point
\* set as the original and bridging segments: two distinct output edges
\* meet only at an endpoint they share, and the union of the output edges
\* equals the union of the input segments.
C18_NonCrossingSamePointSet ==
  Noded =>
    LET input == Range(rounded \o extensions)
        all == input \cup final_lines
        X == {s[1][1] : s \in all} \cup {s[2][1] : s \in all}
        Y == {s[1][2] : s \in all} \cup {s[2][2] : s \in all}
    IN /\ \A e \in final_lines : e[1] # e[2]
       /\ \A e, f \in final_lines : e # f => MeetOnlyAtSharedEndpoint(e, f)
       /\ PiecesOf(final_lines, X, Y) = PiecesOf(input, X, Y)
       /\ \A s \in input : s[1] = s[2] => \E e \in final_lines : OnSegment(s[1], e)

\* C18 witness: the input held an X crossing and a T touch, and noding
\* produced more edges than there were input segments.
C18_Witness ==
  /\ Noded
  /\ \E s, t \in Range(rounded) :
       \E pt \in Crossing(s, t) : pt \notin {s[1], s[2], t[1], t[2]}
  /\ \E s, t \in Range(rounded) :
       \E pt \in {t[1], t[2]} : OnSegment(pt, s) /\ pt \notin {s[1], s[2]}
  /\ Cardinality(final_lines) > Len(rounded)

Extracted == pc \in {"faces", "ranked", "done"}

\* The number of connected components of the graph of the noded edges.
Components(edges) ==
  LET V == {e[1] : e \in edges} \cup {e[2] : e \in edges}
      Reach[S \in SUBSET V] ==
        LET N == UNION {Nbrs(edges, v) : v \in S} \ S
        IN IF N = {} THEN S ELSE Reach[S \cup N]
      Count[R \in SUBSET V] ==
        IF R = {} THEN 0
        ELSE 1 + Count[R \ Reach[{CHOOSE v \in R : TRUE}]]
  IN Count[V]

\* Euler's formula for a planar arrangement with V vertices, E edges and C
\* components: E - V + C bounded faces, and one unbounded face.
BoundedFaces(edges) ==
  Cardinality(edges)
    - Cardinality({e[1] : e \in edges} \cup {e[2] : e \in edges})
    + Components(edges)

\* C19: from the noded arrangement the face extractor emits exactly one
\* polygon per bounded face and never the unbounded face: as many polygons
\* as the arrangement has bounded faces, each of positive area inside the
\* extent of the edges, no two overlapping; a region cut by a chord yields
\* its sub-faces, not their union.  Checked before area filtering.
C19_OnePolygonPerBoundedFace ==
  Extracted =>
    /\ Len(polys) = BoundedFaces(final_lines)
    /\ \A i \in 1..Len(polys) :
         /\ polys[i].cells # {}
         /\ polys[i].area > 0
         /\ \A c \in polys[i].cells :
              \E e, f \in final_lines :
                /\ Min({e[1][1], f[1][1]}) <= c[1] /\ c[3] <= Max({e[2][1], f[2][1]})
                /\ Min({e[1][2], f[1][2]}) <= c[2] /\ c[4] <= Max({e[2][2], f[2][2]})
    /\ \A i, j \in 1..Len(polys) :
         i # j => polys[i].cells \cap polys[j].cells = {}

\* C19 witness: the drawing ends with a LINE, a chord, and two extracted
\* faces lie on either side of a noded edge of that chord.
C19_Witness ==
  /\ pc = "faces"
  /\ rounded # <<>>
  /\ doc.records[Len(doc.records)].kind = "LINE"
  /\ \E i, j \in 1..Len(polys) :
       /\ i # j
       /\ \E e \in final_lines :
            /\ OnSegment(e[1], rounded[Len(rounded)])
            /\ OnSegment(e[2], rounded[Len(rounded)])
            /\ {e[1], e[2]} \subseteq Range(polys[i].ring)
            /\ {e[1], e[2]} \subseteq Range(polys[j].ring)

\* What process_cad answers to form q when it is the only request.
Alone(q) ==
  IF ~ValidExtension(q.filename)
  THEN BadRequest("File must be a DXF or DWG file")
  ELSE IF ~q.layers.ok
  THEN BadRequest("Invalid layers format. Must be a JSON array.")
  ELSE IF LayerCheckRaises(q.file, q.layers)
  THEN InternalError("object of type 'int' has no len()")
  ELSE Answer(ProcessDxfGeometry(q.file,
                [is_none |-> FALSE, layers |-> q.layers.value]))

\* C20: two invocations, back to back or arriving interleaved on different
\* inputs, each return the result they would return alone, and no
\* invocation reads state another one wrote: every answered request got the
\* answer of a lone run on its own upload, and the file a handler is about
\* to process is the one it saved.
C20_InvocationsIsolated ==
  \A r \in DOMAIN requests :
    /\ requests[r].pc = "responded" =>
         requests[r].response = Alone(requests[r].form)
    /\ requests[r].pc = "saved" =>
         ReadFile(upload_dir, requests[r].temp_file_path) = requests[r].form.file

\* C20 witness: two requests with different drawings used the same
\* temporary path one after the other and got different polygons.
C20_Witness ==
  /\ DOMAIN requests = 1..2
  /\ requests[1].pc = "responded"
  /\ requests[2].pc = "responded"
  /\ requests[1].temp_file_path # <<>>
  /\ requests[1].temp_file_path = requests[2].temp_file_path
  /\ requests[1].form.file # requests[2].form.file
  /\ requests[1].response.status = 200
  /\ requests[2].response.status = 200
  /\ requests[1].response # requests[2].response

\* The edges of E that have an end no other edge of E touches.
Loose(E) ==
  {e \in E : \E v \in {e[1], e[2]} : Cardinality(Nbrs(E, v)) = 1}

\* E without its dangling edges: loose edges removed until none is left.
RECURSIVE Prune(_)
Prune(E) == IF Loose(E) = {} THEN E ELSE Prune(E \ Loose(E))

\* Edge e joins two consecutive points of ring r.
EdgeOnRing(e, r) ==
  \E k \in 1..(Len(r) - 1) : {r[k], r[k + 1]} = {e[1], e[2]}

\* The rings and areas of a polygon list.
Outlines(ps) == {<<ps[i].ring, ps[i].area>> : i \in 1..Len(ps)}

\* C21: an edge left dangling after gap closing is part of no output
\* polygon's ring and causes no error: the run returns without error, and
\* the faces found are exactly the faces of the drawing without its
\* dangling edges, so every polygon the rest encloses is still output.
C21_DanglingEdgesIgnored ==
  pc = "done" =>
    LET rest == Prune(final_lines)
        enclosed == Polygonize(rest)
    IN /\ result.error = "None"
       /\ \A e \in final_lines \ rest :
            \A i \in 1..Len(result.polygons) : ~EdgeOnRing(e, OutRing(i))
       /\ Len(polys) = Len(enclosed)
       /\ Outlines(polys) = Outlines(enclosed)
       /\ Len(result.polygons) =
            Cardinality({i \in 1..Len(enclosed) : AreaAbove(enclosed[i].area, scale)})

\* C21 witness: with tolerance 0 an edge stayed dangling, touching the ring
\* of a polygon that was output.
C21_Witness ==
  /\ pc = "done"
  /\ tol = 0
  /\ Len(result.polygons) >= 1
  /\ \E e \in final_lines \ Prune(final_lines) :
       \E i \in 1..Len(result.polygons) :
         {e[1], e[2]} \cap Range(OutRing(i)) # {}

\* The number of pairs record e is to contribute.
PairCount(e) ==
  IF e.kind = "LINE" THEN 1
  ELSE Len(e.pts) - 1 + (IF e.closed THEN 1 ELSE 0)

\* The number of pairs read from the selected records before record k.
RECURSIVE PairsBefore(_)
PairsBefore(k) ==
  IF k = 1 THEN 0
  ELSE PairsBefore(k - 1)
         + (IF Selected(impl, active_layers, doc.records[k - 1])
            THEN PairCount(doc.records[k - 1]) ELSE 0)

\* Every selected record is a Line or a polyline of at least two points.
AllUnrollable ==
  \A k \in 1..Len(doc.records) :
    LET e == doc.records[k]
    IN Selected(impl, active_layers, e) =>
         (e.kind = "LINE" \/ Len(e.pts) >= 2)

\* C22: a polyline with n >= 2 points is unrolled into exactly the n-1
\* consecutive pairs (p[i], p[i+1]) in order, plus the closing pair
\* (p[n-1], p[0]) if and only if it is tagged closed; a Line record yields
\* exactly its one (start, end) pair.
C22_UnrolledPairs ==
  (pc = "lines" /\ AllUnrollable) =>
    /\ Len(lines) = PairsBefore(Len(doc.records) + 1)
    /\ \A k \in 1..Len(doc.records) :
         LET e == doc.records[k]
             at == PairsBefore(k)
             n == Len(e.pts)
         IN Selected(impl, active_layers, e) =>
              IF e.kind = "LINE"
              THEN lines[at + 1] = <<e.pts[1], e.pts[2]>>
              ELSE /\ \A i \in 1..(n - 1) :
                        lines[at + i] = <<e.pts[i], e.pts[i + 1]>>
                   /\ e.closed => lines[at + n] = <<e.pts[n], e.pts[1]>>

\* C22 witness: an open and a closed polyline of more than two points were
\* both read.
C22_Witness ==
  /\ pc = "lines"
  /\ AllUnrollable
  /\ \E j, k \in 1..Len(doc.records) :
       /\ Selected(impl, active_layers, doc.records[j])
       /\ Selected(impl, active_layers, doc.records[k])
       /\ doc.records[j].kind = "LWPOLYLINE" /\ doc.records[k].kind = "LWPOLYLINE"
       /\ Len(doc.records[j].pts) > 2 /\ Len(doc.records[k].pts) > 2
       /\ doc.records[j].closed /\ ~doc.records[k].closed
       /\ Len(lines) = Len(doc.records[j].pts) + Len(doc.records[k].pts) - 1

\* The area enclosed by the closed point sequence r, in milli^2.
RingArea(r) ==
  LET t == Shoelace2(r, 1) IN (IF t < 0 THEN 0 - t ELSE t) \div 2

\* C23 as claimed: for every output polygon the reported raw area is the
\* shoelace area of that polygon's own output ring, also when the drawing
\* nests one closed outline inside another.
C23_AreaOfOwnRing ==
  pc = "done" =>
    \A i \in 1..Len(result.polygons) : OutArea(i) = RingArea(OutRing(i))

\* The rings and raw areas of a ranked polygon list, in order.
RankedOutlines(ps) == [i \in 1..Len(ps) |-> <<ps[i].ring, ps[i].area>>]

\* C24 as claimed: for the same drawing and the same active_layers argument
\* process_dxf and process_dxf_geometry select the same entities and return
\* the same scale and the same ranked polygon sequence (same rings, same
\* areas, same order).
C24_CopiesAgree ==
  (pc = "done" /\ impl = "dxf_utils") =>
    /\ \A k \in 1..Len(doc.records) :
         Selected("dxf_app", active_layers, doc.records[k])
           <=> Selected("dxf_utils", active_layers, doc.records[k])
    /\ ~ReadRaises("dxf_app", active_layers, doc.records)
    /\ RankedOutlines(Pipeline("dxf_app", active_layers, doc.records,
                               doc.units, tol))
         = [i \in 1..Len(result.polygons) |-> <<OutRing(i), OutArea(i)>>]

\* C29: in process_dxf_geometry's output the id of each polygon equals its
\* position in the ranked list: the ids are exactly 0..n-1 with no gap or
\* repeat, and id 0 belongs to a polygon of largest area_raw.
C29_IdsArePositions ==
  (pc = "done" /\ impl = "dxf_utils") =>
    LET out == result.polygons
        n == Len(out)
    IN /\ \A i \in 1..n : out[i].id = i - 1
       /\ {out[i].id : i \in 1..n} = 0..(n - 1)
       /\ \A i, j \in 1..n : out[i].id = out[j].id => i = j
       /\ \A i, j \in 1..n : out[i].id = 0 => out[i].area_raw >= out[j].area_raw

\* C29 witness: process_dxf_geometry returned at least two polygons, one of
\* them smaller than the first.
C29_Witness ==
  /\ pc = "done"
  /\ impl = "dxf_utils"
  /\ Len(result.polygons) >= 2
  /\ \E i \in 1..Len(result.polygons) :
       result.polygons[i].area_raw < result.polygons[1].area_raw

\* C30: the scale used by the pipeline is always strictly positive and is
\* one of 0.0254, 0.001, 0.01 or 1.0 for every units code, unknown codes
\* falling back to 0.0254, so the tolerance conversion
\* EXTENSION_TOLERANCE / scale never divides by zero.
C30_ScalePositive ==
  pc \notin {"start", "listed", "failed"} =>
    /\ scale \in {<<127, 5000>>, <<1, 1000>>, <<1, 100>>, <<1, 1>>}
    /\ scale[1] > 0 /\ scale[2] > 0
    /\ doc.units \notin {0, 1, 2, 4, 5, 6} => scale = <<127, 5000>>
    /\ doc.units = 4 => scale = <<1, 1000>>
    /\ doc.units = 5 => scale = <<1, 100>>
    /\ doc.units = 6 => scale = <<1, 1>>

\* C30 witness: a drawing with an unlisted units code reached gap closing
\* with a dead end to measure against the converted tolerance.
C30_Witness ==
  /\ pc = "extended"
  /\ doc.units \notin {0, 1, 2, 4, 5, 6}
  /\ tol = EXTENSION_TOLERANCE
  /\ Len(dead_ends) > 0
  /\ Len(rounded) > 0

\* C28: when the drawing file cannot be read, process_dxf_geometry returns
\* (None, 0, None, message), process_dxf returns (None, 0, message), neither
\* raising, and get_dxf_layers returns ([], message); no polygon list is
\* produced.
C28_ReadErrorValues ==
  (problem # "" /\ pc # "start") =>
    /\ pc \in {"failed", "listed"}
    /\ pc = "failed" =>
         /\ result.polygons = "None"
         /\ result.scale = <<0, 1>>
         /\ result.error = problem
         /\ IF impl = "dxf_utils"
            THEN /\ DOMAIN result = {"polygons", "scale", "bounds", "error"}
                 /\ result.bounds = "None"
            ELSE DOMAIN result = {"polygons", "scale", "error"}
    /\ pc = "listed" =>
         /\ DOMAIN result = {"layers", "error"}
         /\ result.layers = <<>>
         /\ result.error = problem
    /\ polys = <<>>
    /\ valid_polys = <<>>

\* C28 witness: process_dxf_geometry was called on a file that is not a DXF
\* document and returned.
C28_Witness ==
  /\ problem = "Not a DXF file"
  /\ impl = "dxf_utils"
  /\ pc = "failed"
  /\ result.error = "Not a DXF file"

\* Some file lies at path in UPLOAD_DIR.
Exists(dir, path) == \E f \in dir : f[1] = path

KeysMatch(a) == DOMAIN a.selections = 0..(Len(a.polys) - 1)

\* The step is a processing run in which process_dxf returned an error.
ProcessingReturnedError ==
  \/ \E k \in 1..Len(AppFiles), res \in DialogResults(LayerNames) :
       /\ LoadFile(k, res)
       /\ Listed(k).error = "None"
       /\ ~res.is_none
       /\ ~Processed(k, res.layers).raised
       /\ Processed(k, res.layers).error # "None"
  \/ \E res \in DialogResults(LayerNames) :
       /\ OpenLayerDialog(res)
       /\ ~Processed(app.current_file, res.layers).raised
       /\ Processed(app.current_file, res.layers).error # "None"

\* C25: in DXFAnalyzerApp, after any sequence of load, layer change, single
\* click, box selection and reset, the keys of selections are exactly the
\* indices 0..len(polys)-1 of the current polygon list; a processing run
\* that returns an error leaves both polys and selections unchanged.
C25_SelectionKeysMatchPolys ==
  [][/\ KeysMatch(app)
     /\ KeysMatch(app')
     /\ ProcessingReturnedError =>
          /\ app'.polys = app.polys
          /\ app'.selections = app.selections]_vars

\* C25 witness: with two polygons loaded and one marked, the layers were
\* changed while the current file was unreadable, and the polygons and the
\* mark are still there.
C25_Witness ==
  /\ Len(app.polys) = 2
  /\ DOMAIN app.selections = {0, 1}
  /\ ~AppFiles[app.current_file].readable
  /\ app.active_layers.layers = {"A"}
  /\ app.selections[0].site

\* The exterior envelope of polygon i of the window covers polygon j.
CoveredBy(i, j) == Covers(Envelope(app.polys[i + 1]), app.polys[j + 1])

\* C26: in DXFAnalyzerApp, whenever a click or box selection in site mode
\* turns polygon i's site flag on, every other polygon covered by the
\* exterior envelope of polygon i has its site flag on immediately
\* afterwards; turning polygon i's site flag off by a second click changes
\* the flag of polygon i only.
C26_SiteContainment ==
  [][\A i \in DOMAIN app.selections :
       /\ ( /\ app'.polys = app.polys
            /\ DOMAIN app'.selections = DOMAIN app.selections
            /\ ~app.selections[i].site
            /\ app'.selections[i].site )
          => \A j \in DOMAIN app.selections \ {i} :
               CoveredBy(i, j) => app'.selections[j].site
       /\ ( /\ \E pt \in MousePoints : Click(pt)
            /\ app.selections[i].site
            /\ ~app'.selections[i].site )
          => app'.selections = [app.selections EXCEPT ![i].site = FALSE]]_vars

\* C26 witness: in site mode the outer of two nested polygons has been
\* switched off again while the polygon it covers is still marked.
C26_Witness ==
  /\ Len(app.polys) = 2
  /\ app.current_mode = "site"
  /\ CoveredBy(0, 1)
  /\ ~app.selections[0].site
  /\ app.selections[1].site
  /\ ~app.selections[0].building
  /\ ~app.selections[1].building

====
